---- MODULE Spec2Model ----
(***************************************************************************)
(* Model of src/crossterm_style/color/color.rs: the Color enum and its     *)
(* text conversions, the TerminalColor handle with its factory get(), and  *)
(* paint().  Strings are sequences of Unicode code points.  Option<T> is a *)
(* sequence of length at most one.                                         *)
(***************************************************************************)
EXTENDS Integers, Sequences, FiniteSets, TLC

VARIABLES src, result,
          platform, handles, backends, constructed, term, last,
          obj, chain, rendered

vars == <<src, result, platform, handles, backends, constructed, term, last,
          obj, chain, rendered>>

colorVars == <<src, result>>
termVars  == <<platform, handles, backends, constructed, term, last>>
styleVars == <<obj, chain, rendered>>

\* ------------------------------------------------------------------ bounds
\* every string of at most MaxLen code points over ShortAlphabet is an input
MaxLen == 3
\* number of live TerminalColor handles a caller holds
MaxHandles == 2
\* number of backend boxes allocated in one run
MaxBackends == 4
\* number of distinct colors passed to set_fg / set_bg / with / on
NumColors == 3
\* number of with / on calls chained on one painted value
MaxChain == 3

\* ------------------------------------------------------------ Option, Result
None == <<>>
Some(x) == <<x>>
Ok(x) == [ok |-> TRUE, val |-> x]
Err == [ok |-> FALSE, val |-> "()"]
unwrap_or(r, dflt) == IF r.ok THEN r.val ELSE dflt

\* --------------------------------------------------------------------- Color
\* the variants of the enum, in declaration order
ColorVariants == <<"Black", "Red", "DarkRed", "Green", "DarkGreen", "Yellow",
                   "DarkYellow", "Blue", "DarkBlue", "Magenta", "DarkMagenta",
                   "Cyan", "DarkCyan", "Grey", "White">>

Color == {ColorVariants[i] : i \in DOMAIN ColorVariants}

ColorType == {"Background", "Foreground"}

\* str::to_lowercase, one code point at a time: ASCII A-Z, U+212A KELVIN SIGN
\* (lower-cases to k) and U+0130 (lower-cases to i followed by U+0307); every
\* other code point of the model's alphabet is unchanged.
char_to_lowercase(c) ==
    IF c >= 65 /\ c <= 90 THEN <<c + 32>>
    ELSE IF c = 8490 THEN <<107>>
    ELSE IF c = 304 THEN <<105, 775>>
    ELSE <<c>>

RECURSIVE to_lowercase(_)
to_lowercase(s) ==
    IF s = <<>> THEN <<>>
    ELSE char_to_lowercase(Head(s)) \o to_lowercase(Tail(s))

\* the string literals of the match arms of from_str, in source order
MatchArms == <<
    [pat |-> <<98,108,97,99,107>>,                              color |-> "Black"],
    [pat |-> <<114,101,100>>,                                   color |-> "Red"],
    [pat |-> <<100,97,114,107,95,114,101,100>>,                 color |-> "DarkRed"],
    [pat |-> <<103,114,101,101,110>>,                           color |-> "Green"],
    [pat |-> <<100,97,114,107,95,103,114,101,101,110>>,         color |-> "DarkGreen"],
    [pat |-> <<121,101,108,108,111,119>>,                       color |-> "Yellow"],
    [pat |-> <<100,97,114,107,95,121,101,108,108,111,119>>,     color |-> "DarkYellow"],
    [pat |-> <<98,108,117,101>>,                                color |-> "Blue"],
    [pat |-> <<100,97,114,107,95,98,108,117,101>>,              color |-> "DarkBlue"],
    [pat |-> <<109,97,103,101,110,116,97>>,                     color |-> "Magenta"],
    [pat |-> <<100,97,114,107,95,109,97,103,101,110,116,97>>,   color |-> "DarkMagenta"],
    [pat |-> <<99,121,97,110>>,                                 color |-> "Cyan"],
    [pat |-> <<100,97,114,107,95,99,121,97,110>>,               color |-> "DarkCyan"],
    [pat |-> <<103,114,101,121>>,                               color |-> "Grey"],
    [pat |-> <<119,104,105,116,101>>,                           color |-> "White"] >>

\* the arm a match on s takes: the first arm whose literal equals s, 0 for `_`
match_arm(s) ==
    IF \E i \in DOMAIN MatchArms : MatchArms[i].pat = s
    THEN CHOOSE i \in DOMAIN MatchArms :
            /\ MatchArms[i].pat = s
            /\ \A j \in 1..(i - 1) : MatchArms[j].pat # s
    ELSE 0

\* mutant: the input is matched as written, without lower-casing
from_str_no_lowercase(s) ==
    LET arm == match_arm(s)
    IN  IF arm # 0 THEN Ok(MatchArms[arm].color) ELSE Ok("White")

\* mutant: the wildcard arm reports a parse error
from_str_strict(s) ==
    LET arm == match_arm(to_lowercase(s))
    IN  IF arm # 0 THEN Ok(MatchArms[arm].color) ELSE Err

\* <Color as FromStr>::from_str
from_str(s) ==
    LET lowered == to_lowercase(s)
        arm == match_arm(lowered)
    IN  IF arm # 0 THEN Ok(MatchArms[arm].color) ELSE Ok("White")

\* <Color as From<&str>>::from : src.parse().unwrap_or(Color::White)
from_ref_str(s) == unwrap_or(from_str(s), "White")

\* <Color as From<String>>::from : src.parse().unwrap_or(Color::White)
from_string(s) == unwrap_or(from_str(s), "White")

\* ------------------------------------------------------- inputs of the parser
RECURSIVE Pow2(_)
Pow2(n) == IF n = 0 THEN 1 ELSE 2 * Pow2(n - 1)

\* the textual name of a variant as the documentation writes it: the lower
\* case word, and "dark_" before it for the Dark variants
BaseWord == [Black   |-> <<98,108,97,99,107>>,      Red   |-> <<114,101,100>>,
             Green   |-> <<103,114,101,101,110>>,   Yellow |-> <<121,101,108,108,111,119>>,
             Blue    |-> <<98,108,117,101>>,        Magenta |-> <<109,97,103,101,110,116,97>>,
             Cyan    |-> <<99,121,97,110>>,         Grey  |-> <<103,114,101,121>>,
             White   |-> <<119,104,105,116,101>>]

DarkOf == [DarkRed |-> "Red", DarkGreen |-> "Green", DarkYellow |-> "Yellow",
           DarkBlue |-> "Blue", DarkMagenta |-> "Magenta", DarkCyan |-> "Cyan"]

CanonicalName(c) ==
    IF c \in DOMAIN DarkOf THEN <<100,97,114,107,95>> \o BaseWord[DarkOf[c]]
    ELSE BaseWord[c]

AsciiUpper(c) == IF c >= 97 /\ c <= 122 THEN c - 32 ELSE c

\* name with the letters selected by the bits of mask written in upper case
CaseMix(name, mask) ==
    [i \in 1..Len(name) |->
        IF (mask \div Pow2(i - 1)) % 2 = 1 THEN AsciiUpper(name[i]) ELSE name[i]]

CaseMixes(name) == {CaseMix(name, m) : m \in 0..(Pow2(Len(name)) - 1)}

\* the same spellings with every k / K written as U+212A KELVIN SIGN
WithKelvin(s) == [i \in 1..Len(s) |-> IF s[i] \in {75, 107} THEN 8490 ELSE s[i]]

AsciiSpellings == UNION {CaseMixes(CanonicalName(c)) : c \in Color}

KelvinSpellings == {WithKelvin(s) : s \in AsciiSpellings} \ AsciiSpellings

ShortAlphabet == {114, 101, 100, 82, 69, 68, 95, 8490}

ShortStrings == UNION {[1..n -> ShortAlphabet] : n \in 0..MaxLen}

\* "not_a_color", "RAINBOW", "darkred", "DarkRed", "dark red", " red", "red ",
\* "WH\u{130}TE", "dark_", "dark_grey"
OtherStrings == {
    <<110,111,116,95,97,95,99,111,108,111,114>>,
    <<82,65,73,78,66,79,87>>,
    <<100,97,114,107,114,101,100>>,
    <<68,97,114,107,82,101,100>>,
    <<100,97,114,107,32,114,101,100>>,
    <<32,114,101,100>>,
    <<114,101,100,32>>,
    <<87,72,304,84,69>>,
    <<100,97,114,107,95>>,
    <<100,97,114,107,95,103,114,101,121>> }

Inputs == AsciiSpellings \cup KelvinSpellings \cup ShortStrings \cup OtherStrings

\* ---------------------------------------------------------------- backends
\* the colors the callers of the model pass: the first NumColors variants
TestColors == {ColorVariants[i] : i \in 1..NumColors}

\* the color state of the terminal: what the next written text is shown in
DefaultTerm == [fg |-> "Default", bg |-> "Default"]

\* one item of the output stream: a control sequence or a piece of text
Esc(what, color) == [kind |-> "esc", what |-> what, data |-> color]
Text(t) == [kind |-> "text", what |-> "text", data |-> t]

\* the effects one call chain works on: the platform of the build, the number
\* of backend boxes allocated so far, the terminal, and what the call did
\* (backend calls made, items written, boxes built, the state text was
\* written in)
Env(plat, n, t) ==
    [platform |-> plat, n |-> n, term |-> t, calls |-> <<>>, out |-> <<>>,
     built |-> <<>>, shown |-> None]

Call(b, f, color) == [backend |-> b.id, f |-> f, color |-> color]

\* ITerminalColor::set_fg of ANSIColor (a control sequence in the stream, which
\* the terminal obeys) and of WinApiColor (the console attribute, no bytes)
backend_set_fg(b, color, e) ==
    [e EXCEPT !.calls = Append(@, Call(b, "set_fg", Some(color))),
              !.out = IF b.kind = "ANSIColor" THEN Append(@, Esc("fg", color)) ELSE @,
              !.term = [@ EXCEPT !.fg = color]]

\* ITerminalColor::set_bg
backend_set_bg(b, color, e) ==
    [e EXCEPT !.calls = Append(@, Call(b, "set_bg", Some(color))),
              !.out = IF b.kind = "ANSIColor" THEN Append(@, Esc("bg", color)) ELSE @,
              !.term = [@ EXCEPT !.bg = color]]

\* ITerminalColor::reset
backend_reset(b, e) ==
    [e EXCEPT !.calls = Append(@, Call(b, "reset", None)),
              !.out = IF b.kind = "ANSIColor" THEN Append(@, Esc("reset", "-")) ELSE @,
              !.term = DefaultTerm]

\* ------------------------------------------------------------ TerminalColor
\* mutant: every handle is given the same backend box
get_color_options_shared(e) ==
    [opt |-> Some([kind |-> IF e.platform = "unix" THEN "ANSIColor" ELSE "WinApiColor",
                   id |-> 1]),
     e |-> [e EXCEPT !.n = @ + 1, !.built = Append(@, 1)]]

\* get_color_options: a new box holding the backend of the build's platform
get_color_options(e) ==
    [opt |-> Some([kind |-> IF e.platform = "unix" THEN "ANSIColor" ELSE "WinApiColor",
                   id |-> e.n + 1]),
     e |-> [e EXCEPT !.n = @ + 1, !.built = Append(@, e.n + 1)]]

\* mutant: the backend is rebuilt on every call
init_always(self, e) ==
    LET r == get_color_options(e)
    IN  [self |-> [self EXCEPT !.terminal_color = r.opt], e |-> r.e]

\* TerminalColor::init
init(self, e) ==
    IF self.terminal_color = None
    THEN LET r == get_color_options(e)
         IN  [self |-> [self EXCEPT !.terminal_color = r.opt], e |-> r.e]
    ELSE [self |-> self, e |-> e]

\* mutant: the foreground color is sent to the background channel
set_fg_swapped(self, color, e) ==
    LET i == init(self, e)
    IN  IF i.self.terminal_color # None
        THEN [self |-> i.self, e |-> backend_set_bg(i.self.terminal_color[1], color, i.e)]
        ELSE i

\* TerminalColor::set_fg
set_fg(self, color, e) ==
    LET i == init(self, e)
    IN  IF i.self.terminal_color # None
        THEN [self |-> i.self, e |-> backend_set_fg(i.self.terminal_color[1], color, i.e)]
        ELSE i

\* mutant: the background color is set, and the foreground with it
set_bg_both(self, color, e) ==
    LET i == init(self, e)
    IN  IF i.self.terminal_color # None
        THEN [self |-> i.self,
              e |-> backend_set_fg(i.self.terminal_color[1], color,
                        backend_set_bg(i.self.terminal_color[1], color, i.e))]
        ELSE i

\* TerminalColor::set_bg
set_bg(self, color, e) ==
    LET i == init(self, e)
    IN  IF i.self.terminal_color # None
        THEN [self |-> i.self, e |-> backend_set_bg(i.self.terminal_color[1], color, i.e)]
        ELSE i

\* mutant: reset initialises the handle and forwards nothing
reset_not_forwarded(self, e) == init(self, e)

\* TerminalColor::reset
reset(self, e) ==
    LET i == init(self, e)
    IN  IF i.self.terminal_color # None
        THEN [self |-> i.self, e |-> backend_reset(i.self.terminal_color[1], i.e)]
        ELSE i

\* mutant: the factory leaves the backend to the first use
get_lazy(e) == [self |-> [terminal_color |-> None], e |-> e]

\* get: the factory
get(e) ==
    LET r == get_color_options(e)
    IN  [self |-> [terminal_color |-> r.opt], e |-> r.e]

\* ------------------------------------------------ ObjectStyle, StyledObject
\* the values painted: a string slice and an integer
Values == {[ty |-> "str", s |-> "Colored font", n |-> 0],
           [ty |-> "i32", s |-> "", n |-> 42]}

\* fmt::Display of the wrapped value: a string as written, an integer in decimal
Display(v) == IF v.ty = "str" THEN v.s ELSE ToString(v.n)

\* ObjectStyle::new
ObjectStyle_new == [fg_color |-> None, bg_color |-> None, attrs |-> {}]

\* ObjectStyle::apply_to
apply_to(style, val) == [object_style |-> style, content |-> val]

\* StyledObject::with
with(o, color) == [o EXCEPT !.object_style.fg_color = Some(color)]

\* StyledObject::on
on(o, color) == [o EXCEPT !.object_style.bg_color = Some(color)]

\* the value's own text goes to the stream, in the terminal's current colors
write_content(o, e) ==
    [e EXCEPT !.out = Append(@, Text(Display(o.content))),
              !.shown = Some([fg |-> e.term.fg, bg |-> e.term.bg,
                              text |-> Display(o.content)])]

\* <StyledObject as Display>::fmt
fmt(o, e) ==
    LET st == o.object_style
    IN  IF st.fg_color = None /\ st.bg_color = None /\ st.attrs = {}
        THEN write_content(o, e)
        ELSE LET g == get(e)
                 f == IF st.fg_color # None
                      THEN set_fg(g.self, st.fg_color[1], g.e) ELSE g
                 b == IF st.bg_color # None
                      THEN set_bg(f.self, st.bg_color[1], f.e) ELSE f
             IN  reset(b.self, write_content(o, b.e)).e

\* mutant: a painted value starts with a white foreground
paint_white(val) == apply_to([ObjectStyle_new EXCEPT !.fg_color = Some("White")], val)

\* paint
paint(val) == apply_to(ObjectStyle_new, val)

\* ------------------------------------------------------------ initial values
ColorInit0 == src = <<>> /\ result = None
TermInit0 ==
    /\ handles = <<>>
    /\ backends = 0
    /\ constructed = <<>>
    /\ term = DefaultTerm
    /\ last = [op |-> "none", h |-> 0, color |-> None, calls |-> <<>>,
               out |-> <<>>, built |-> <<>>, before |-> DefaultTerm]
StyleInit0 == obj = None /\ chain = <<>> /\ rendered = None

\* ------------------------------------------- specification of the conversions
InitColor ==
    /\ src \in Inputs
    /\ result = None
    /\ platform = "unix"
    /\ TermInit0
    /\ StyleInit0

CallFromStr ==
    /\ result = None
    /\ LET r == from_str(src)
       IN  result' = Some([fn |-> "from_str", ok |-> r.ok, val |-> r.val])
    /\ UNCHANGED <<src, termVars, styleVars>>

CallFromRefStr ==
    /\ result = None
    /\ result' = Some([fn |-> "from_ref_str", ok |-> TRUE, val |-> from_ref_str(src)])
    /\ UNCHANGED <<src, termVars, styleVars>>

CallFromString ==
    /\ result = None
    /\ result' = Some([fn |-> "from_string", ok |-> TRUE, val |-> from_string(src)])
    /\ UNCHANGED <<src, termVars, styleVars>>

NextColor == CallFromStr \/ CallFromRefStr \/ CallFromString

SpecColor == InitColor /\ [][NextColor]_vars

\* ------------------------------------------- specification of TerminalColor
Init ==
    /\ platform \in {"unix", "windows"}
    /\ ColorInit0
    /\ TermInit0
    /\ StyleInit0

\* the state after a call on handle h that returned r
Commit(h, op, color, r) ==
    /\ r.e.n <= MaxBackends
    /\ handles' = [handles EXCEPT ![h] = r.self]
    /\ constructed' = [constructed EXCEPT ![h] = @ \o r.e.built]
    /\ backends' = r.e.n
    /\ term' = r.e.term
    /\ last' = [op |-> op, h |-> h, color |-> color, calls |-> r.e.calls,
                out |-> r.e.out, built |-> r.e.built, before |-> term]
    /\ UNCHANGED <<platform, colorVars, styleVars>>

Get ==
    /\ Len(handles) < MaxHandles
    /\ LET r == get(Env(platform, backends, term))
       IN  /\ r.e.n <= MaxBackends
           /\ handles' = Append(handles, r.self)
           /\ constructed' = Append(constructed, r.e.built)
           /\ backends' = r.e.n
           /\ term' = r.e.term
           /\ last' = [op |-> "get", h |-> Len(handles) + 1, color |-> None,
                       calls |-> r.e.calls, out |-> r.e.out, built |-> r.e.built,
                       before |-> term]
    /\ UNCHANGED <<platform, colorVars, styleVars>>

CallInit(h) ==
    Commit(h, "init", None, init(handles[h], Env(platform, backends, term)))

CallSetFg(h, c) ==
    Commit(h, "set_fg", Some(c), set_fg(handles[h], c, Env(platform, backends, term)))

CallSetBg(h, c) ==
    Commit(h, "set_bg", Some(c), set_bg(handles[h], c, Env(platform, backends, term)))

CallReset(h) ==
    Commit(h, "reset", None, reset(handles[h], Env(platform, backends, term)))

Next ==
    \/ Get
    \/ \E h \in DOMAIN handles : CallInit(h)
    \/ \E h \in DOMAIN handles : \E c \in TestColors : CallSetFg(h, c)
    \/ \E h \in DOMAIN handles : \E c \in TestColors : CallSetBg(h, c)
    \/ \E h \in DOMAIN handles : CallReset(h)

Spec == Init /\ [][Next]_vars

\* ------------------------------------------- specification of styled values
Paint(v) ==
    /\ obj' = Some(paint(v))
    /\ chain' = <<>>
    /\ rendered' = None
    /\ UNCHANGED <<colorVars, termVars>>

With(c) ==
    /\ obj # None
    /\ Len(chain) < MaxChain
    /\ obj' = Some(with(obj[1], c))
    /\ chain' = Append(chain, [m |-> "with", color |-> c])
    /\ rendered' = None
    /\ UNCHANGED <<colorVars, termVars>>

On(c) ==
    /\ obj # None
    /\ Len(chain) < MaxChain
    /\ obj' = Some(on(obj[1], c))
    /\ chain' = Append(chain, [m |-> "on", color |-> c])
    /\ rendered' = None
    /\ UNCHANGED <<colorVars, termVars>>

Render ==
    /\ obj # None
    /\ LET r == fmt(obj[1], Env(platform, backends, term))
       IN  /\ r.n <= MaxBackends
           /\ rendered' = Some([shown |-> r.shown[1], calls |-> r.calls,
                                out |-> r.out, built |-> r.built])
           /\ backends' = r.n
           /\ term' = r.term
    /\ UNCHANGED <<colorVars, platform, handles, constructed, last, obj, chain>>

NextStyle ==
    \/ \E v \in Values : Paint(v)
    \/ \E c \in TestColors : With(c)
    \/ \E c \in TestColors : On(c)
    \/ Render

SpecStyle == Init /\ [][NextStyle]_vars

\* ==================================================================== claims
\* s spells name with each letter in lower or upper ASCII case
IsCaseMixOf(s, name) ==
    /\ Len(s) = Len(name)
    /\ \A i \in 1..Len(name) : s[i] \in {name[i], AsciiUpper(name[i])}

\* the same, where a k may also be written as U+212A KELVIN SIGN
IsUnicodeCaseMixOf(s, name) ==
    /\ Len(s) = Len(name)
    /\ \A i \in 1..Len(name) :
          s[i] \in {name[i], AsciiUpper(name[i])} \cup (IF name[i] = 107 THEN {8490} ELSE {})

\* the colors some input parses to
ParsedColors == {from_str(s).val : s \in Inputs}

Parsed == result # None /\ result[1].fn = "from_str"

\* C1 as stated: there are 16 canonical names; from_str maps every spelling of
\* a canonical name in any mix of upper and lower case letters to its variant
\* and every other string to White.
C1_Original ==
    Parsed =>
        /\ Cardinality(ParsedColors) = 16
        /\ \A c \in Color : IsCaseMixOf(src, CanonicalName(c)) => result[1].val = c
        /\ (~ \E c \in Color : IsCaseMixOf(src, CanonicalName(c))) => result[1].val = "White"

\* C1 amended: there are 15 canonical names, one per variant; from_str maps
\* every string whose Unicode lower-casing is a canonical name (its letters in
\* any ASCII case, a k also as U+212A KELVIN SIGN) to the matching variant and
\* every other string, the empty one included, to White, and never fails.
C1_ParseTotalCaseInsensitive ==
    Parsed =>
        /\ result[1].ok
        /\ Cardinality(ParsedColors) = 15
        /\ ParsedColors = Color
        /\ \A c \in Color : IsUnicodeCaseMixOf(src, CanonicalName(c)) => result[1].val = c
        /\ (~ \E c \in Color : IsUnicodeCaseMixOf(src, CanonicalName(c)))
              => result[1].val = "White"

\* "DaRk_rEd" has been parsed to DarkRed
C1_Witness ==
    /\ Parsed
    /\ src = <<68,97,82,107,95,114,69,100>>
    /\ result[1].val = "DarkRed"

\* C10: from_str returns Ok for every input, and Color::from(&str) and
\* Color::from(String) return the color inside that Ok.
C10_EntryPointsAgree ==
    result # None =>
        /\ result[1].ok
        /\ from_str(src).ok
        /\ result[1].fn \in {"from_ref_str", "from_string"}
              => result[1].val = from_str(src).val

\* Color::from(String) of "RAINBOW" gave the White of from_str's wildcard arm
C10_Witness ==
    /\ result # None
    /\ result[1].fn = "from_string"
    /\ src = <<82,65,73,78,66,79,87>>
    /\ result[1].val = "White"

Handle(h) == handles[h].terminal_color

C3_InitIdempotent ==
    [][ /\ \A h \in DOMAIN handles' : Len(constructed'[h]) <= 1
        /\ \A h \in DOMAIN handles :
              Handle(h) # None => handles'[h].terminal_color = Handle(h)
      ]_vars

\* init was called on a handle that already held its backend and built nothing
C3_Witness ==
    /\ last.op = "init"
    /\ Handle(last.h) # None
    /\ Len(constructed[last.h]) = 1
    /\ last.built = <<>>

\* C4: after reset the terminal is in its default state, whatever set_fg and
\* set_bg calls came before.
C4_ResetComplete ==
    last.op = "reset" => term = DefaultTerm

\* reset was called with both channels set and cleared both
C4_Witness ==
    /\ last.op = "reset"
    /\ last.before.fg # "Default"
    /\ last.before.bg # "Default"
    /\ term = DefaultTerm

\* C5: handles own distinct backend instances, and a call on one handle
\* leaves the backend option of every other handle as it was.
C5_HandlesIsolated ==
    [][ /\ \A h, k \in DOMAIN handles' :
              (h # k /\ handles'[h].terminal_color # None)
                  => handles'[h].terminal_color # handles'[k].terminal_color
        /\ \A k \in DOMAIN handles :
              k # last'.h => handles'[k] = handles[k]
        /\ last'.op = "get" => last'.h \notin DOMAIN handles
      ]_vars

\* two handles exist, each with its own backend, and one of them was used
C5_Witness ==
    /\ Len(handles) = 2
    /\ Handle(1) # None /\ Handle(2) # None
    /\ Handle(1)[1].id # Handle(2)[1].id
    /\ last.op = "set_fg" /\ last.h = 1

\* the one backend call a handle operation forwards
Forwarded(f) == <<Call(Handle(last.h)[1], f, last.color)>>

C9_State ==
    /\ last.op = "set_fg" =>
          /\ last.calls = Forwarded("set_fg")
          /\ term.fg = last.color[1]
          /\ term.bg = last.before.bg
    /\ last.op = "set_bg" =>
          /\ last.calls = Forwarded("set_bg")
          /\ term.bg = last.color[1]
          /\ term.fg = last.before.fg

\* C9: set_fg(c) makes exactly one backend set_fg call with c and leaves the
\* background as it was, set_bg(c) likewise for the background, and a channel
\* changes only by a call on that channel or a reset.
C9_OneCallOwnChannel ==
    [][ /\ C9_State'
        /\ term'.fg # term.fg => last'.op \in {"set_fg", "reset"}
        /\ term'.bg # term.bg => last'.op \in {"set_bg", "reset"}
      ]_vars

\* set_bg was called with the foreground set, and the foreground is still there
C9_Witness ==
    /\ last.op = "set_bg"
    /\ last.before.fg # "Default"
    /\ term.fg = last.before.fg
    /\ term.bg = last.color[1]
    /\ term.bg # term.fg

StyleOf(o) == o.object_style

\* C7: a painted value with no with / on call has the empty style, and
\* rendering it acquires no handle, makes no backend call and writes exactly
\* the value's own text.
C7_UnstyledRoundTrip ==
    (obj # None /\ chain = <<>>) =>
        /\ StyleOf(obj[1]) = [fg_color |-> None, bg_color |-> None, attrs |-> {}]
        /\ rendered # None =>
              /\ rendered[1].calls = <<>>
              /\ rendered[1].built = <<>>
              /\ rendered[1].out = <<Text(Display(obj[1].content))>>

\* the integer 42 was painted and rendered as the two digits, nothing else
C7_Witness ==
    /\ obj # None /\ chain = <<>> /\ rendered # None
    /\ obj[1].content.ty = "i32"
    /\ rendered[1].out = <<Text("42")>>

\* the color of the last call of method m in the chain, Default without one
RECURSIVE LastColor(_, _)
LastColor(m, ch) ==
    IF ch = <<>> THEN "Default"
    ELSE IF ch[Len(ch)].m = m THEN ch[Len(ch)].color
    ELSE LastColor(m, SubSeq(ch, 1, Len(ch) - 1))

\* C8: the value is rendered with the foreground of the last with call and
\* the background of the last on call, whatever the order of the chain.
C8_LastWriteWins ==
    rendered # None =>
        /\ rendered[1].shown.fg = LastColor("with", chain)
        /\ rendered[1].shown.bg = LastColor("on", chain)

\* with(Red).on(DarkRed).with(Black) was rendered: Black on DarkRed
C8_Witness ==
    /\ rendered # None
    /\ chain = <<[m |-> "with", color |-> "Red"], [m |-> "on", color |-> "DarkRed"],
                 [m |-> "with", color |-> "Black"]>>
    /\ rendered[1].shown.fg = "Black"
    /\ rendered[1].shown.bg = "DarkRed"
====
